---- MODULE Spec2Model ----
(***************************************************************************)
(* Model of the lap-time recorder (symple_lap-time_recorder.py): the timer *)
(* state of LapTimerApp, its event handlers (toggle_timer, reset_timer,    *)
(* record_lap, update_timer, save_results) and the pure formatting         *)
(* function format_time.                                                   *)
(*                                                                         *)
(* Time is counted in integer milliseconds: the integer k stands for the   *)
(* double nearest to k/1000.                                               *)
(*                                                                         *)
(* The readings of the clock are whole eighths of a second (multiples of   *)
(* 125 ms).  Such readings, and every sum and difference the handlers form *)
(* of them, are doubles with a few significant bits, so the handlers'      *)
(* float subtractions are exact on them and integer subtraction gives the  *)
(* value the code computes.  (The readings time.time() returns during one  *)
(* session lie in one binade and are multiples of one power of two in the  *)
(* same way; readings off such a grid, like 8.407, make the subtractions   *)
(* round and are not among the inputs of this model.)                      *)
(*                                                                         *)
(* format_time is modelled on the double nearest to k/1000 for every k,    *)
(* including the direction in which that double is off.                    *)
(*                                                                         *)
(* save_results opens modal dialogs (QInputDialog.getText,                 *)
(* QFileDialog.getSaveFileName, QMessageBox): each runs an event loop in   *)
(* which the QTimer keeps calling update_timer while the keys and buttons  *)
(* of the main window are blocked.  pc is the position of save_results:    *)
(* the handler is one action per stretch of code between two dialogs.      *)
(*                                                                         *)
(* Two statements of save_results depend on the environment outside the    *)
(* destination file: Path.home() (before the file dialog, outside the try  *)
(* block) raises in a process without home directory, and the print that   *)
(* follows the "Save Complete" box (inside the try block) raises when      *)
(* standard output fails.  An exception that leaves a handler is reported  *)
(* by PySide6 on standard error and the event loop goes on: alive records  *)
(* that it happened.                                                       *)
(***************************************************************************)
EXTENDS Integers, Sequences, FiniteSets, TLC

VARIABLES
  now,           \* the reading time.time() / datetime.now() would return
  start_time,    \* self.start_time: None or a clock value
  is_running,    \* self.is_running
  elapsed_time,  \* self.elapsed_time
  lap_times,     \* self.lap_times: sequence of lap_data records
  lap_text,      \* self.lap_text: the lines of the lap log widget
  save_enabled,  \* self.save_button.isEnabled()
  status_label,  \* self.status_label.text()
  time_label,    \* self.time_label.text()
  file,          \* what the step taken last has put in the destination it opened
  msg,           \* the message box that is open
  io_error,      \* the error open() or a write to the destination has raised
                 \* in the step taken last
  alive,         \* FALSE once an exception has escaped a handler
  ev,            \* the event the event loop dispatched last
  pc,            \* where save_results stands: "idle" when it is not running
  session_name,  \* the local session_name of save_results, while it is needed
  fin,           \* argument of the format_time call under study
  fout           \* its result

vars == <<now, start_time, is_running, elapsed_time, lap_times, lap_text,
          save_enabled, status_label, time_label, file, msg, io_error,
          alive, ev, pc, session_name, fin, fout>>

timerVars == <<start_time, is_running, elapsed_time, lap_times, lap_text,
               save_enabled, status_label, time_label>>

(***************************************************************************)
(* Bounds of the model.                                                    *)
(***************************************************************************)
\* eighths of a second between two readings of the clock that the model
\* tells apart
ClockStep == 19
\* the first reading of the clock, in eighths of a second; time.time()
\* counts from the epoch and is positive
FirstReading == 8
\* the clock runs from ClockOrigin to ClockOrigin + MaxClock quanta
MaxClock == 2
\* cap on the number of lap records
MaxLaps == 2

\* the program binds the keys 0..9 to record_lap(0..9); the model presses
\* the last of them
LapKeys == {9}

\* ClockStep and FirstReading in milliseconds
Quantum == 125 * ClockStep
ClockOrigin == 125 * FirstReading

(***************************************************************************)
(* Decimal rendering of integers (the d / 02d conversions of f-strings).   *)
(***************************************************************************)
Digit(d) == <<"0", "1", "2", "3", "4", "5", "6", "7", "8", "9">>[d + 1]

RECURSIVE IntToStr(_)
IntToStr(n) == IF n < 10 THEN Digit(n)
               ELSE IntToStr(n \div 10) \o Digit(n % 10)

\* f"{n:02d}": at least two characters, zero padded, never cut; the sign of
\* a negative n takes one of the two
Pad2_cut(n) == Digit((n \div 10) % 10) \o Digit(n % 10)
Pad2(n) == IF n < 0 THEN "-" \o IntToStr(0 - n)
           ELSE IF n < 10 THEN "0" \o Digit(n)
           ELSE IntToStr(n)

\* three digits, zero padded (n < 1000)
Pad3(n) == Digit(n \div 100) \o Digit((n \div 10) % 10) \o Digit(n % 10)

(***************************************************************************)
(* The double nearest to k/1000.                                           *)
(***************************************************************************)
\* 2^s mod m, by squaring (m <= 2000)
RECURSIVE Pow2Mod(_, _)
Pow2Mod(s, m) ==
  IF s = 0 THEN 1 % m
  ELSE IF s % 2 = 1 THEN (2 * Pow2Mod(s - 1, m)) % m
  ELSE LET h == Pow2Mod(s \div 2, m) IN (h * h) % m

RECURSIVE Pow2(_)
Pow2(n) == IF n = 0 THEN 1 ELSE 2 * Pow2(n - 1)

\* the binary exponent e of k/1000: 2^e <= k/1000 < 2^(e+1), for k > 0
RECURSIVE ExpUp(_, _)
ExpUp(k, e) == IF 1000 * Pow2(e + 1) <= k THEN ExpUp(k, e + 1) ELSE e
RECURSIVE ExpDown(_, _)
ExpDown(k, e) == IF k * Pow2(0 - e) < 1000 THEN ExpDown(k, e - 1) ELSE e
BinExp(k) == IF k >= 1000 THEN ExpUp(k, 0) ELSE ExpDown(k, 0)

\* The double has 53 significant bits: it is round(k * 2^s / 1000) / 2^s
\* with s = 52 - BinExp(k).  FloatErr is the remainder of that division:
\* 0 when k/1000 is a double, below 500 when the double is smaller than
\* k/1000, above 500 when it is larger (k > 0).
FloatErr(k) == ((k % 1000) * Pow2Mod(52 - BinExp(k), 1000)) % 1000

\* whether the quotient floor(k * 2^s / 1000) is odd
QuotientOdd(k) ==
  (((k % 2000) * Pow2Mod(52 - BinExp(k), 2000)) - FloatErr(k)) % 2000 = 1000

\* the sign of (double(k/1000) - k/1000), for k > 0
FloatSign(k) == IF FloatErr(k) = 0 THEN 0
                ELSE IF FloatErr(k) > 500 THEN 1 ELSE -1

(***************************************************************************)
(* format_time                                                             *)
(***************************************************************************)
\* The sign of (remaining_seconds - rem/1000), where remaining_seconds is
\* the float seconds % 60 of the double nearest to k/1000 and
\* rem = k % 60000.  For k >= 0 the float remainder is exact, so the sign is
\* that of the double's error.  For k < 0 Python computes
\* fmod(seconds, 60) + 60: the error of the double changes sign, and the
\* addition rounds once more when its result needs more bits than -k/1000
\* has (then to the double nearest to it, ties to the even quotient).
RemainderSign(k, rem) ==
  IF k >= 0 THEN FloatSign(k)
  ELSE LET a == 0 - k
           sh == BinExp(rem) - BinExp(a)
           P == FloatErr(rem) * Pow2(sh)
                  + (IF FloatErr(a) < 500 THEN FloatErr(a) ELSE FloatErr(a) - 1000)
       IN  IF sh <= 0 THEN 0 - FloatSign(a)
           ELSE IF FloatErr(rem) = 0 THEN 0
           ELSE IF P < 500 * Pow2(sh) THEN -1
           ELSE IF P > 500 * Pow2(sh) THEN 1
           ELSE IF QuotientOdd(rem) THEN 1 ELSE -1

\* The .2f conversion of remaining_seconds, in hundredths: correctly
\* rounded on the exact value of the float, ties to even.
Hundredths(k, rem) ==
  LET lo == rem \div 10
  IN  IF rem % 10 < 5 THEN lo
      ELSE IF rem % 10 > 5 THEN lo + 1
      ELSE IF RemainderSign(k, rem) = 0 THEN (IF lo % 2 = 0 THEN lo ELSE lo + 1)
      ELSE IF RemainderSign(k, rem) < 0 THEN lo
      ELSE lo + 1

\* f"{remaining_seconds:05.2f}"
SecondsField(h) == Pad2(h \div 100) \o "." \o Digit((h \div 10) % 10) \o Digit(h % 10)

format_time(k) ==
  LET minutes == k \div 60000
      remaining_seconds == k % 60000
  IN  Pad2(minutes) \o ":" \o SecondsField(Hundredths(k, remaining_seconds))

(***************************************************************************)
(* Values of the timer state                                               *)
(***************************************************************************)
\* self.start_time is None or a float
None == [isNone |-> TRUE, val |-> 0]
Some(v) == [isNone |-> FALSE, val |-> v]

\* the truth value Python gives self.start_time in "and self.start_time":
\* None and 0.0 are both false
Truthy(st) == ~st.isNone /\ st.val # 0

\* time.time() - self.elapsed_time
StartReference_rezero(t, e) == t
StartReference(t, e) == t - e

\* time.time() - self.start_time
Elapsed_swapped(t, s) == s - t
Elapsed(t, s) == t - s

\* the condition under which update_timer recomputes elapsed_time
TickUpdates_ignoreRunning(running, st) == Truthy(st)
TickUpdates(running, st) == running /\ Truthy(st)

\* the condition under which record_lap records
CanRecord_always(running) == TRUE
CanRecord(running) == running

\* time difference from the previous lap
LapTime_total(current_time, laps) == current_time
LapTime(current_time, laps) ==
  IF laps # <<>> THEN current_time - laps[Len(laps)].total_time
  ELSE current_time

LapData(lap_number, current_time, laps, ts) ==
  [number |-> lap_number,
   lap_time |-> LapTime(current_time, laps),
   total_time |-> current_time,
   timestamp |-> ts]

\* strftime("%H:%M:%S") of a clock reading (UTC, ms since the epoch)
TimeOfDay(ts) ==
  Pad2((ts \div 3600000) % 24) \o ":" \o Pad2((ts \div 60000) % 60)
    \o ":" \o Pad2((ts \div 1000) % 60)

LapInfo_noTotal(lap_data) ==
  "[" \o IntToStr(lap_data.number) \o "] " \o format_time(lap_data.lap_time)
    \o " - " \o TimeOfDay(lap_data.timestamp)

\* the line add_lap_to_display appends to the lap log
LapInfo(lap_data) ==
  "[" \o IntToStr(lap_data.number) \o "] " \o format_time(lap_data.lap_time)
    \o " (Total: " \o format_time(lap_data.total_time) \o ") - "
    \o TimeOfDay(lap_data.timestamp)

(***************************************************************************)
(* Export: the inputs and the rows of save_results                         *)
(***************************************************************************)
\* no destination was opened: nothing was created or written
NoFile == [exists |-> FALSE, rows |-> <<>>]
\* no message box
NoMsg == [icon |-> "none", title |-> "", text |-> ""]
\* no I/O error
NoError == ""

\* what the user may type as session name (a string is a sequence of
\* one-character strings, so that strip() can be computed)
SessionNames == {<<>>, <<" ">>, <<" ", "a", " ">>}
\* what the file dialog may return: "" when cancelled
FilePaths == {"", "/out.csv"}
\* str(e) of the OSError open() raises, and of the one a write raises
OpenCause == "[Errno 13] Permission denied: '/out.csv'"
WriteCause == "[Errno 28] No space left on device"

\* str.strip()
RECURSIVE LStrip(_)
LStrip(s) == IF s # <<>> /\ Head(s) = " " THEN LStrip(Tail(s)) ELSE s
RECURSIVE RStrip(_)
RStrip(s) == IF s # <<>> /\ s[Len(s)] = " "
               THEN RStrip(SubSeq(s, 1, Len(s) - 1)) ELSE s
Strip(s) == RStrip(LStrip(s))

RECURSIVE Join(_)
Join(s) == IF s = <<>> THEN "" ELSE Head(s) \o Join(Tail(s))

\* f"{x:.3f}" of the double nearest to k/1000
Raw3(k) == IF k < 0 THEN "-" \o IntToStr((0 - k) \div 1000) \o "." \o Pad3((0 - k) % 1000)
           ELSE IntToStr(k \div 1000) \o "." \o Pad3(k % 1000)

\* strftime('%Y-%m-%d %H:%M:%S') of a clock reading; the clock of the model
\* stays within the first day of the epoch
DateTime(ts) == "1970-01-01 " \o TimeOfDay(ts)
\* strftime('%Y-%m-%d %H:%M:%S.%f')[:-3]
DateTimeMs(ts) == DateTime(ts) \o "." \o Pad3(ts % 1000)

\* the rows written before the lap rows
HeaderRows(name, ts, laps, elapsed) ==
  << <<"# Session Information">>,
     <<"Session Name", Join(Strip(name))>>,
     <<"Save Date", DateTime(ts)>>,
     <<"Total Laps", IntToStr(Len(laps))>>,
     <<"Total Time", format_time(elapsed)>>,
     <<>>,
     <<"Lap Number", "Lap Time (sec)", "Lap Time (display)",
       "Total Time (sec)", "Total Time (display)", "Timestamp">> >>

LapRow_swapped(lap_data) ==
  <<IntToStr(lap_data.number),
    Raw3(lap_data.total_time), format_time(lap_data.lap_time),
    Raw3(lap_data.lap_time), format_time(lap_data.total_time),
    DateTimeMs(lap_data.timestamp)>>
LapRow(lap_data) ==
  <<IntToStr(lap_data.number),
    Raw3(lap_data.lap_time), format_time(lap_data.lap_time),
    Raw3(lap_data.total_time), format_time(lap_data.total_time),
    DateTimeMs(lap_data.timestamp)>>

\* every row of a complete export, in writing order
ExportRows(name, ts, laps, elapsed) ==
  HeaderRows(name, ts, laps, elapsed)
    \o [i \in 1..Len(laps) |-> LapRow(laps[i])]

\* The text csv.writer puts out for a row is its cells with a comma between
\* two of them, then "\r\n" (no cell of the model needs quoting); the text
\* of the file is the text of its rows.  CellsLen, RowLen and TextLen count
\* the characters, which are the bytes of the utf-8 file.
RECURSIVE CellsLen(_)
CellsLen(row) ==
  IF row = <<>> THEN 0
  ELSE Len(Head(row)) + (IF Len(row) > 1 THEN 1 ELSE 0) + CellsLen(Tail(row))
RowLen(row) == CellsLen(row) + 2
RECURSIVE TextLen(_)
TextLen(rows) ==
  IF rows = <<>> THEN 0 ELSE RowLen(Head(rows)) + TextLen(Tail(rows))

\* the cells read back from the first n characters of a row's text,
\* 0 < n < CellsLen(row): the last cell is cut, and is empty when the text
\* ends with a comma
RECURSIVE CutRow(_, _)
CutRow(row, n) ==
  IF n <= Len(Head(row)) THEN <<SubSeq(Head(row), 1, n)>>
  ELSE <<Head(row)>> \o CutRow(Tail(row), n - Len(Head(row)) - 1)

\* the rows read back (csv.reader) from the first n characters of the text
\* of rows: a row is there as soon as one of its characters is, its line
\* end included
RECURSIVE PrefixRows(_, _)
PrefixRows(rows, n) ==
  IF n <= 0 \/ rows = <<>> THEN <<>>
  ELSE IF n >= CellsLen(Head(rows))
    THEN <<Head(rows)>> \o PrefixRows(Tail(rows), n - RowLen(Head(rows)))
  ELSE <<CutRow(Head(rows), n)>>

\* the faults of one export: none, open() raises, or a write raises after
\* `done` bytes have reached the file.  The rows go through the buffer of
\* the file object, so the bytes that reach the file before the failure are
\* any proper prefix of the text.
NoFault == [stage |-> "none", done |-> 0, cause |-> NoError]
HeaderLen == 7
FaultPoints(rows) == 0..(TextLen(rows) - 1)
Faults(rows) ==
  {NoFault, [stage |-> "open", done |-> 0, cause |-> OpenCause]}
    \cup {[stage |-> "write", done |-> d, cause |-> WriteCause] :
            d \in FaultPoints(rows)}

\* the destination after the with-block, as csv.reader reads it back:
\* open(path, 'w') creates or empties the file, then the text is written
\* until a write raises
FileAfter(rows, fault) ==
  IF fault.stage = "open" THEN NoFile
  ELSE IF fault.stage = "write"
    THEN [exists |-> TRUE, rows |-> PrefixRows(rows, fault.done)]
  ELSE [exists |-> TRUE, rows |-> rows]

\* QMessageBox.information(self, "Information", "No lap times to save.")
EmptyMsg == [icon |-> "information", title |-> "Information",
             text |-> "No lap times to save."]
\* QMessageBox.information(self, "Save Complete", ...)
SavedMsg(file_path) ==
  [icon |-> "information", title |-> "Save Complete",
   text |-> "Results saved to:\n" \o file_path]
\* except Exception as e: QMessageBox.critical(self, "Save Error", ...);
\* the exception is consumed and the handler returns
ExceptHandler_uncaught(cause) == [msg |-> NoMsg, alive |-> FALSE]
ExceptHandler(cause) ==
  [msg |-> [icon |-> "critical", title |-> "Save Error",
            text |-> "Error occurred while saving file:\n" \o cause],
   alive |-> TRUE]

\* Path.home() returns the home directory, or raises RuntimeError with this
\* text in a process that has none (HOME unset, no passwd entry of the uid)
NoHome == "Could not determine home directory."
HomeFaults == {NoError, NoHome}

\* str(e) of what print raises when standard output fails: the terminal has
\* gone, the device is full, the reader of the pipe has gone (OSError), the
\* stream is closed (ValueError of the text stream sys.stdout is)
PrintCauses == {"[Errno 5] Input/output error",
                "[Errno 28] No space left on device",
                "[Errno 32] Broken pipe",
                "I/O operation on closed file."}
PrintFaults == {NoError} \cup PrintCauses

\* "if not self.lap_times"
NoLaps_never(laps) == FALSE
NoLaps(laps) == laps = <<>>

(***************************************************************************)
(* Construction                                                            *)
(***************************************************************************)
Init ==
  /\ now = ClockOrigin
  /\ start_time = None
  /\ is_running = FALSE
  /\ elapsed_time = 0
  /\ lap_times = <<>>
  /\ lap_text = <<>>
  /\ save_enabled = FALSE
  /\ status_label = "Press Space to Start"
  /\ time_label = "00:00.00"
  /\ file = NoFile
  /\ msg = NoMsg
  /\ io_error = NoError
  /\ alive = TRUE
  /\ ev = "init"
  /\ pc = "idle"
  /\ session_name = <<>>
  /\ fin = 0
  /\ fout = ""

\* a handler of the main window runs when no dialog of save_results is open
\* (the dialogs are modal: the shortcuts and buttons of the main window do
\* not fire while one is open)
Idle == pc = "idle"

\* a step that opens no file and runs into no I/O error
NoIO == io_error' = NoError /\ file' = NoFile

\* a step of a handler of the main window: it shows no message box and
\* does no I/O
Quiet == msg' = NoMsg /\ NoIO /\ UNCHANGED <<pc, session_name>>

\* a step taken in whatever event loop is running, that of the application
\* or that of an open dialog: the dialog stays as it is
Behind == UNCHANGED <<msg, pc, session_name>> /\ NoIO

(***************************************************************************)
(* The clock: time passes between two events                               *)
(***************************************************************************)
ClockAdvance ==
  /\ \E d \in 1..MaxClock :
       /\ now + d * Quantum <= ClockOrigin + MaxClock * Quantum
       /\ now' = now + d * Quantum
  /\ ev' = "clock"
  /\ UNCHANGED <<timerVars, alive, fin, fout>>
  /\ Behind

(***************************************************************************)
(* Event handlers                                                          *)
(***************************************************************************)
toggle_timer_zeroOnStop ==
  /\ Idle
  /\ IF ~is_running
       THEN /\ start_time' = Some(StartReference(now, elapsed_time))
            /\ is_running' = TRUE
            /\ status_label' = "Running - Press Space to Stop"
            /\ UNCHANGED elapsed_time
       ELSE /\ is_running' = FALSE
            /\ status_label' = "Stopped - Press Space to Resume"
            /\ elapsed_time' = 0
            /\ UNCHANGED start_time
  /\ ev' = "toggle"
  /\ UNCHANGED <<now, lap_times, lap_text, save_enabled,
                 time_label, alive, fin, fout>>
  /\ Quiet

toggle_timer ==
  /\ Idle
  /\ IF ~is_running
       THEN /\ start_time' = Some(StartReference(now, elapsed_time))
            /\ is_running' = TRUE
            /\ status_label' = "Running - Press Space to Stop"
       ELSE /\ is_running' = FALSE
            /\ status_label' = "Stopped - Press Space to Resume"
            /\ UNCHANGED start_time
  /\ ev' = "toggle"
  /\ UNCHANGED <<now, elapsed_time, lap_times, lap_text, save_enabled,
                 time_label, alive, fin, fout>>
  /\ Quiet

reset_timer_keepsElapsed ==
  /\ Idle
  /\ is_running' = FALSE
  /\ start_time' = None
  /\ lap_times' = <<>>
  /\ status_label' = "Press Space to Start"
  /\ lap_text' = <<>>
  /\ save_enabled' = FALSE
  /\ ev' = "reset"
  /\ UNCHANGED <<now, elapsed_time, time_label, alive, fin, fout>>
  /\ Quiet

reset_timer_keepsSave ==
  /\ Idle
  /\ is_running' = FALSE
  /\ start_time' = None
  /\ elapsed_time' = 0
  /\ lap_times' = <<>>
  /\ status_label' = "Press Space to Start"
  /\ lap_text' = <<>>
  /\ ev' = "reset"
  /\ UNCHANGED <<now, save_enabled, time_label, alive, fin, fout>>
  /\ Quiet

reset_timer ==
  /\ Idle
  /\ is_running' = FALSE
  /\ start_time' = None
  /\ elapsed_time' = 0
  /\ lap_times' = <<>>
  /\ status_label' = "Press Space to Start"
  /\ lap_text' = <<>>
  /\ save_enabled' = FALSE
  /\ ev' = "reset"
  /\ UNCHANGED <<now, time_label, alive, fin, fout>>
  /\ Quiet

record_lap_insertFront(lap_number) ==
  /\ Idle
  /\ Len(lap_times) < MaxLaps
  /\ IF CanRecord(is_running)
       THEN LET lap_data == LapData(lap_number, elapsed_time, lap_times, now)
            IN  /\ lap_times' = <<lap_data>> \o lap_times
                /\ lap_text' = Append(lap_text, LapInfo(lap_data))
                /\ save_enabled' = TRUE
       ELSE UNCHANGED <<lap_times, lap_text, save_enabled>>
  /\ ev' = "record_lap"
  /\ UNCHANGED <<now, start_time, is_running, elapsed_time, status_label,
                 time_label, alive, fin, fout>>
  /\ Quiet

record_lap(lap_number) ==
  /\ Idle
  /\ Len(lap_times) < MaxLaps
  /\ IF CanRecord(is_running)
       THEN LET lap_data == LapData(lap_number, elapsed_time, lap_times, now)
            IN  /\ lap_times' = Append(lap_times, lap_data)
                /\ lap_text' = Append(lap_text, LapInfo(lap_data))
                /\ save_enabled' = TRUE
       ELSE UNCHANGED <<lap_times, lap_text, save_enabled>>
  /\ ev' = "record_lap"
  /\ UNCHANGED <<now, start_time, is_running, elapsed_time, status_label,
                 time_label, alive, fin, fout>>
  /\ Quiet

update_timer ==
  /\ elapsed_time' = IF TickUpdates(is_running, start_time)
                       THEN Elapsed(now, start_time.val)
                       ELSE elapsed_time
  /\ time_label' = format_time(elapsed_time')
  /\ ev' = "tick"
  /\ UNCHANGED <<now, start_time, is_running, lap_times, lap_text,
                 save_enabled, status_label, alive, fin, fout>>
  /\ Behind

\* QMessageBox.information / QMessageBox.critical return when the user
\* closes the box
Boxes == {"empty_box", "saved_box", "error_box"}

\* save_results up to its first dialog: the box of the empty session, or
\* QInputDialog.getText
save_results ==
  /\ Idle
  /\ IF NoLaps(lap_times)
       THEN msg' = EmptyMsg /\ pc' = "empty_box"
       ELSE msg' = NoMsg /\ pc' = "name_dialog"
  /\ NoIO
  /\ ev' = "save"
  /\ UNCHANGED <<now, timerVars, alive, session_name, fin, fout>>

\* "if not ok or not session_name.strip()"
NameCancelled(ok, name) == ~ok \/ Strip(name) = <<>>

\* QInputDialog.getText returns: the handler returns, or builds the default
\* path under Path.home() and goes on to QFileDialog.getSaveFileName.  The
\* path is built outside the try block: when Path.home() raises, the
\* exception leaves the handler and no dialog or box opens.
save_results_name ==
  /\ pc = "name_dialog"
  /\ \E ok \in BOOLEAN, name \in SessionNames :
       IF NameCancelled(ok, name)
         THEN pc' = "idle" /\ session_name' = <<>> /\ UNCHANGED alive
         ELSE \E home \in HomeFaults :
                IF home = NoError
                  THEN pc' = "file_dialog" /\ session_name' = name
                         /\ UNCHANGED alive
                  ELSE pc' = "idle" /\ session_name' = <<>>
                         /\ alive' = FALSE
  /\ msg' = NoMsg
  /\ NoIO
  /\ ev' = "name"
  /\ UNCHANGED <<now, timerVars, fin, fout>>

\* the try block of save_results: open, write every row, report
WriteFile(rows, file_path, fault) ==
  LET handled == ExceptHandler(fault.cause)
  IN  /\ file' = FileAfter(rows, fault)
      /\ io_error' = fault.cause
      /\ IF fault.stage = "none"
           THEN msg' = SavedMsg(file_path) /\ pc' = "saved_box"
                  /\ UNCHANGED alive
           ELSE msg' = handled.msg /\ pc' = "error_box"
                  /\ alive' = (alive /\ handled.alive)

save_results_write_stops ==
  /\ pc = "file_dialog"
  /\ \E file_path \in FilePaths :
       IF file_path = ""
         THEN pc' = "idle" /\ msg' = NoMsg /\ NoIO /\ UNCHANGED alive
         ELSE \E rows \in {ExportRows(session_name, now, lap_times,
                                      elapsed_time)} :
                \E fault \in Faults(rows) : WriteFile(rows, file_path, fault)
  /\ session_name' = <<>>
  /\ ev' = "path"
  /\ is_running' = FALSE
  /\ UNCHANGED <<now, start_time, elapsed_time, lap_times, lap_text,
                 save_enabled, status_label, time_label, fin, fout>>

\* QFileDialog.getSaveFileName returns: the handler returns, or opens and
\* writes the file and shows the box that reports the outcome.  The file
\* system is touched only when the handler gets that far: the fault is
\* drawn there.
save_results_write ==
  /\ pc = "file_dialog"
  /\ \E file_path \in FilePaths :
       IF file_path = ""
         THEN pc' = "idle" /\ msg' = NoMsg /\ NoIO /\ UNCHANGED alive
         ELSE \E rows \in {ExportRows(session_name, now, lap_times,
                                      elapsed_time)} :
                \E fault \in Faults(rows) : WriteFile(rows, file_path, fault)
  /\ session_name' = <<>>
  /\ ev' = "path"
  /\ UNCHANGED <<now, timerVars, fin, fout>>

\* the print that follows the "Save Complete" box, inside the try block:
\* when it raises, the except handler opens the "Save Error" box
PrintAfter(box) == IF box = "saved_box" THEN PrintFaults ELSE {NoError}

\* the user closes the message box: save_results returns, after its print
\* when the box was "Save Complete".  The destination is not touched again.
save_results_return ==
  /\ pc \in Boxes
  /\ \E cause \in PrintAfter(pc) :
       IF cause = NoError
         THEN pc' = "idle" /\ msg' = NoMsg /\ UNCHANGED alive
         ELSE LET handled == ExceptHandler(cause)
              IN  /\ pc' = "error_box"
                  /\ msg' = handled.msg
                  /\ alive' = (alive /\ handled.alive)
  /\ NoIO
  /\ ev' = "close"
  /\ UNCHANGED <<now, timerVars, session_name, fin, fout>>

Next ==
  \/ ClockAdvance
  \/ toggle_timer
  \/ reset_timer
  \/ \E n \in LapKeys : record_lap(n)
  \/ update_timer
  \/ save_results
  \/ save_results_name
  \/ save_results_write
  \/ save_results_return

Spec == Init /\ [][Next]_vars

(***************************************************************************)
(* format_time on its own: the argument is drawn from the millisecond      *)
(* grid, the call renders it                                               *)
(***************************************************************************)
\* every duration up to MaxFmtMs ms is tried ...
MaxFmtMs == 60999
\* ... and some longer ones: 65 s, 125.4 s, 3661.5 s, and 100 minutes and more
LongDurations == {65000, 125400, 3661500, 6000000, 6059996}
FormatInputs == (0..MaxFmtMs) \cup LongDurations

FmtInit ==
  /\ now = ClockOrigin
  /\ start_time = None
  /\ is_running = FALSE
  /\ elapsed_time = 0
  /\ lap_times = <<>>
  /\ lap_text = <<>>
  /\ save_enabled = FALSE
  /\ status_label = "Press Space to Start"
  /\ time_label = "00:00.00"
  /\ file = NoFile
  /\ msg = NoMsg
  /\ io_error = NoError
  /\ alive = TRUE
  /\ ev = "init"
  /\ pc = "idle"
  /\ session_name = <<>>
  /\ fin \in FormatInputs
  /\ fout = ""

FormatCall ==
  /\ fout = ""
  /\ fout' = format_time(fin)
  /\ UNCHANGED <<now, timerVars, file, msg, io_error, alive, ev, pc,
                 session_name, fin>>

FmtNext == FormatCall

FmtSpec == FmtInit /\ [][FmtNext]_vars

(***************************************************************************)
(* Properties                                                              *)
(***************************************************************************)
NumLaps == Len(lap_times)
LastLap == lap_times[NumLaps]

RECURSIVE SumLapTime(_)
SumLapTime(i) == IF i = 0 THEN 0 ELSE lap_times[i].lap_time + SumLapTime(i - 1)

\* C1: the cumulative durations (total_time) of the stored lap records are
\* non-decreasing in recording order, and no lap duration is negative.
C1_CumulativeNonDecreasing ==
  /\ \A i \in 1..(NumLaps - 1) :
       lap_times[i].total_time <= lap_times[i + 1].total_time
  /\ \A i \in 1..NumLaps : lap_times[i].lap_time >= 0

\* two laps, the second recorded later than the first and with more time
\* on the timer
C1_Witness ==
  /\ NumLaps = 2
  /\ 0 < lap_times[1].total_time
  /\ lap_times[1].total_time < lap_times[2].total_time
  /\ lap_times[1].timestamp < lap_times[2].timestamp

\* C2: record_lap while running appends exactly one record, whose
\* total_time is the current elapsed_time and whose lap_time is elapsed_time
\* minus the previous record's total_time (elapsed_time for the first one);
\* hence the lap_times of records 1..i always sum to total_time[i].
C2_RecordStep ==
  (ev' = "record_lap" /\ is_running) =>
     /\ Len(lap_times') = NumLaps + 1
     /\ SubSeq(lap_times', 1, NumLaps) = lap_times
     /\ lap_times'[NumLaps + 1].total_time = elapsed_time
     /\ lap_times'[NumLaps + 1].lap_time =
          (IF NumLaps = 0 THEN elapsed_time
           ELSE elapsed_time - LastLap.total_time)
C2_LapDurations ==
  /\ [](\A i \in 1..NumLaps : SumLapTime(i) = lap_times[i].total_time)
  /\ [][C2_RecordStep]_vars

\* a second lap has just been recorded, after a first one of non-zero time
C2_Witness ==
  /\ ev = "record_lap"
  /\ NumLaps = 2
  /\ lap_times[1].total_time > 0
  /\ lap_times[2].lap_time > 0

\* C3: elapsed_time pauses at the value it has when the timer is stopped and
\* resumes from that value: a toggle never changes it, no tick changes it
\* while stopped, and the tick at the instant of a start or resume leaves it
\* as it was.
C3_ToggleStep ==
  /\ ev' = "toggle" => elapsed_time' = elapsed_time
  /\ (~is_running /\ ev' = "tick") => elapsed_time' = elapsed_time
  /\ (ev = "toggle" /\ is_running /\ ev' = "tick") => elapsed_time' = elapsed_time
C3_PauseResume == [][C3_ToggleStep]_vars

\* a tick right after a resume: the timer had run, was paused for a while
\* (the start reference has moved since the first lap) and runs again
C3_Witness ==
  /\ ev = "tick"
  /\ is_running
  /\ elapsed_time > 0
  /\ NumLaps > 0
  /\ start_time.val > lap_times[1].timestamp - lap_times[1].total_time
  /\ now - start_time.val = elapsed_time

\* C4: the elapsed_time frozen by a stop and the total_time stored by
\* record_lap are the values absolute time gives (the clock reading minus the
\* start reference), whatever ticks did or did not occur before.
C4_TickIndependent ==
  /\ (ev = "record_lap" /\ is_running) =>
        LastLap.total_time = now - start_time.val
  /\ (ev = "toggle" /\ ~is_running) =>
        elapsed_time = now - start_time.val

\* C5: reset yields is_running = FALSE, elapsed_time = 0 and no laps, and
\* until the next toggle (while there is no start reference) elapsed_time
\* stays 0 whatever ticks occur.
C5_Reset ==
  /\ ev = "reset" => (~is_running /\ elapsed_time = 0 /\ lap_times = <<>>)
  /\ start_time.isNone => (~is_running /\ elapsed_time = 0 /\ lap_times = <<>>)

\* a reset has just cleared a session that had elapsed time (the time label
\* still shows it)
C5_Witness ==
  /\ ev = "reset"
  /\ time_label # "00:00.00"

\* C6: record_lap in a stopped state is a silent no-op: no record is added
\* and is_running, elapsed_time, start_time, the lap sequence, the lap log
\* and the save button stay as they are; no message is shown.
C6_StoppedStep ==
  (ev' = "record_lap" /\ ~is_running) =>
     /\ UNCHANGED <<is_running, elapsed_time, start_time, lap_times,
                    lap_text, save_enabled>>
     /\ msg' = NoMsg
C6_StoppedLapNoOp == [][C6_StoppedStep]_vars

\* a lap key was pressed while paused after running, with one lap stored
C6_Witness ==
  /\ ev = "record_lap"
  /\ ~is_running
  /\ elapsed_time > 0
  /\ NumLaps = 1

\* C7: save_results with no lap records shows the information box
\* "No lap times to save." and opens no file: the handler goes from the key
\* to the box and from the box to its return, and neither step nor any
\* step taken while the box is open touches a file.
C7_EmptyStep ==
  /\ (ev' = "save" /\ lap_times = <<>>) =>
        /\ msg'.icon = "information"
        /\ msg'.text = "No lap times to save."
        /\ pc' = "empty_box"
        /\ io_error' = NoError
        /\ file' = NoFile
  /\ pc = "empty_box" =>
        /\ pc' \in {"empty_box", "idle"}
        /\ io_error' = NoError
        /\ file' = NoFile
C7_EmptySession == [][C7_EmptyStep]_vars

\* an export was asked for while running with elapsed time and no laps
C7_Witness ==
  /\ ev = "save"
  /\ lap_times = <<>>
  /\ is_running
  /\ elapsed_time > 0
  /\ msg = EmptyMsg

\* the rows are a complete session: the header block and as many lap rows
\* as the "Total Laps" row announces, each with its six columns, the
\* timestamp in full (23 characters)
IsCompleteExport(rows) ==
  /\ Len(rows) >= HeaderLen
  /\ Len(rows[HeaderLen]) = 6
  /\ rows[HeaderLen][6] = "Timestamp"
  /\ rows[4][2] = IntToStr(Len(rows) - HeaderLen)
  /\ \A i \in (HeaderLen + 1)..Len(rows) :
        Len(rows[i]) = 6 /\ Len(rows[i][6]) = 23

\* C8: export is atomic: an export attempt leaves a complete session
\* (metadata block, header row and every lap row) at the destination or
\* writes nothing, never a part of a session.
C8_ExportAtomic == file.exists => IsCompleteExport(file.rows)

\* C9: a failure to open or write the destination is reported in a critical
\* "Save Error" box whose text carries the cause, and is not fatal: the
\* step in which it happens lets no exception escape, the box can be
\* closed, closing it ends save_results (no further box, no exception, the
\* timer state as it was), and with no dialog open the application accepts
\* toggle, tick, record_lap, reset and export events.
C9_FailureReported ==
  /\ io_error # NoError =>
       /\ msg.icon = "critical"
       /\ msg.title = "Save Error"
       /\ msg.text = "Error occurred while saving file:\n" \o io_error
       /\ pc = "error_box"
  /\ pc = "error_box" =>
       /\ msg.title = "Save Error"
       /\ ENABLED save_results_return
  /\ pc = "idle" =>
       /\ ENABLED toggle_timer
       /\ ENABLED update_timer
       /\ ENABLED reset_timer
       /\ ENABLED save_results
       /\ NumLaps < MaxLaps => ENABLED (\E n \in LapKeys : record_lap(n))
C9_FailureStep ==
  /\ io_error' # NoError => alive' = alive
  /\ (pc = "error_box" /\ ev' = "close") =>
        /\ pc' = "idle"
        /\ msg' = NoMsg
        /\ alive' = alive
        /\ UNCHANGED timerVars
C9_WriteFailedReported ==
  /\ []C9_FailureReported
  /\ [][C9_FailureStep]_vars

\* a write failed while the timer was running and left a part of the
\* header block in the file; no exception has escaped a handler
C9_Witness ==
  /\ io_error = WriteCause
  /\ alive
  /\ is_running
  /\ msg.icon = "critical"
  /\ file.exists
  /\ Len(file.rows) = 5
  /\ file.rows[5] = <<"Total Time", "00:02">>

\* C10: format_time truncates to hundredths: the seconds field is the
\* truncation of (seconds mod 60) to two decimals, hence below 60.00.
C10_Truncates ==
  fout # "" =>
     fout = Pad2(fin \div 60000) \o ":" \o SecondsField((fin % 60000) \div 10)

\* C11: for a non-negative duration that is a whole number of hundredths,
\* format_time returns floor(seconds / 60) in at least two digits (zero
\* padded, never cut), a colon, and seconds mod 60 as two integer digits, a
\* point and two decimals; 0 gives 00:00.00, 65 gives 01:05.00 and 3661.5
\* gives 61:01.50.
C11_WholeHundredths ==
  (fout # "" /\ fin % 10 = 0) =>
     LET m == fin \div 60000
         cs == (fin % 60000) \div 10
     IN  /\ fout = (IF m < 10 THEN "0" \o IntToStr(m) ELSE IntToStr(m))
                     \o ":" \o Digit(cs \div 1000) \o Digit((cs \div 100) % 10)
                     \o "." \o Digit((cs \div 10) % 10) \o Digit(cs % 10)
         /\ fin = 0 => fout = "00:00.00"
         /\ fin = 65000 => fout = "01:05.00"
         /\ fin = 3661500 => fout = "61:01.50"
         /\ fin = 6000000 => fout = "100:00.00"

\* 3661.5 seconds have been rendered, with a minutes field above 59
C11_Witness == fin = 3661500 /\ fout = "61:01.50"

\* C12: a successful export has written (the state is the one the write
\* leaves, the "Save Complete" box just opened), in this order, the marker row, the
\* session name, the save date, the lap count, the total time, one blank
\* row, the column-header row and then one row per lap record in recording
\* order; the lap count equals the number of lap rows, and the columns of a
\* lap row are label, raw lap time, formatted lap time, raw total time,
\* formatted total time and timestamp.
C12_ExportLayout ==
  (ev = "path" /\ msg.title = "Save Complete") =>
     /\ file.exists
     /\ Len(file.rows) = 7 + NumLaps
     /\ file.rows[1] = <<"# Session Information">>
     /\ file.rows[2] = <<"Session Name", "a">>
     /\ file.rows[3] = <<"Save Date", "1970-01-01 " \o TimeOfDay(now)>>
     /\ file.rows[4] = <<"Total Laps", IntToStr(Len(file.rows) - 7)>>
     /\ file.rows[5] = <<"Total Time", format_time(elapsed_time)>>
     /\ file.rows[6] = <<>>
     /\ file.rows[7] = <<"Lap Number", "Lap Time (sec)", "Lap Time (display)",
                         "Total Time (sec)", "Total Time (display)",
                         "Timestamp">>
     /\ \A i \in 1..NumLaps :
          /\ Len(file.rows[7 + i]) = 6
          /\ file.rows[7 + i][1] = IntToStr(lap_times[i].number)
          /\ file.rows[7 + i][2] = Raw3(lap_times[i].lap_time)
          /\ file.rows[7 + i][3] = format_time(lap_times[i].lap_time)
          /\ file.rows[7 + i][4] = Raw3(lap_times[i].total_time)
          /\ file.rows[7 + i][5] = format_time(lap_times[i].total_time)
          /\ file.rows[7 + i][6] =
               "1970-01-01 " \o TimeOfDay(lap_times[i].timestamp)
                 \o "." \o Pad3(lap_times[i].timestamp % 1000)

\* two laps have been exported, the second with a lap time that differs
\* from its total time
C12_Witness ==
  /\ ev = "path"
  /\ msg.title = "Save Complete"
  /\ NumLaps = 2
  /\ Len(file.rows) = 9
  /\ lap_times[2].lap_time # lap_times[2].total_time

\* C13: the save button is enabled if and only if at least one lap record
\* exists.
C13_ExportEnabled == save_enabled <=> (lap_times # <<>>)

\* the button is still enabled after an export made while the timer runs
C13_Witness ==
  /\ ev = "path"
  /\ save_enabled
  /\ is_running
  /\ file.exists

\* C14: while the timer runs a start reference is defined, a tick in a
\* running state sets elapsed_time to the clock reading minus the start
\* reference, and a tick in a stopped state leaves elapsed_time unchanged.
C14_TickStep ==
  /\ (is_running /\ ev' = "tick") =>
        elapsed_time' = now' - start_time.val
  /\ (~is_running /\ ev' = "tick") => elapsed_time' = elapsed_time
C14_TickRecomputes ==
  /\ [](is_running => ~start_time.isNone)
  /\ [][C14_TickStep]_vars

\* a tick has recomputed elapsed_time against a start reference that a
\* resume has moved past the first reading of the clock
C14_Witness ==
  /\ ev = "tick"
  /\ is_running
  /\ start_time.val > ClockOrigin
  /\ elapsed_time = now - start_time.val
  /\ elapsed_time > 0

\* C15: lap records are immutable: toggle, tick and every step of an export
\* (and the passing of time) leave the lap sequence unchanged, record_lap only appends (the
\* previous sequence is a prefix of the new one), and only reset removes
\* records.
C15_LapStep ==
  /\ ev' \in {"toggle", "tick", "clock", "save", "name", "path", "close"} =>
        lap_times' = lap_times
  /\ ev' = "record_lap" =>
        /\ Len(lap_times') >= NumLaps
        /\ SubSeq(lap_times', 1, NumLaps) = lap_times
  /\ Len(lap_times') < NumLaps => ev' = "reset"
C15_LapsImmutable == [][C15_LapStep]_vars

\* a second record has been appended behind a first one that differs from it
C15_Witness ==
  /\ ev = "record_lap"
  /\ NumLaps = 2
  /\ lap_times[1] # lap_times[2]
  /\ lap_times[1].timestamp < lap_times[2].timestamp

\* C16: the lap log has exactly one line per stored lap record, in recording
\* order, each line built from the record's label, lap duration and
\* cumulative duration; the log is empty exactly when the lap sequence is.
C16_LapLog ==
  /\ Len(lap_text) = NumLaps
  /\ \A i \in 1..NumLaps :
        LET r == lap_times[i]
        IN  lap_text[i] =
              "[" \o IntToStr(r.number) \o "] " \o format_time(r.lap_time)
                \o " (Total: " \o format_time(r.total_time) \o ") - "
                \o TimeOfDay(r.timestamp)
  /\ (lap_text = <<>>) <=> (lap_times = <<>>)

\* two records are stored and the log shows two different lines for them
C16_Witness ==
  /\ NumLaps = 2
  /\ Len(lap_text) = 2
  /\ lap_text[1] # lap_text[2]
  /\ lap_times[2].lap_time # lap_times[2].total_time

\* C17: under a non-decreasing clock elapsed_time is never negative, and no
\* step other than reset lowers it.
C17_ElapsedStep == ev' # "reset" => elapsed_time' >= elapsed_time
C17_ElapsedMonotone ==
  /\ [](elapsed_time >= 0)
  /\ [][C17_ElapsedStep]_vars

\* a tick taken while a dialog of an export is open has raised
\* elapsed_time past the total of the last lap
C17_Witness ==
  /\ ev = "tick"
  /\ pc = "file_dialog"
  /\ is_running
  /\ NumLaps = 1
  /\ LastLap.total_time > 0
  /\ elapsed_time >= 2 * LastLap.total_time

\* C18: in every outcome save_results leaves is_running, start_time and
\* lap_times unchanged: no step of the handler changes them, and no step
\* taken while one of its dialogs is open does.
C18_SaveStep ==
  (ev' \in {"save", "name", "path", "close"} \/ pc # "idle") =>
     UNCHANGED <<is_running, start_time, lap_times>>
C18_ExportOneWay == [][C18_SaveStep]_vars

\* an export written in full while the timer runs, and ticks taken while
\* the dialogs were open: the timer still runs and is ahead of the last lap
C18_Witness ==
  /\ ev = "path"
  /\ is_running
  /\ ~start_time.isNone
  /\ file.exists
  /\ IsCompleteExport(file.rows)
  /\ msg.title = "Save Complete"
  /\ NumLaps >= 1
  /\ elapsed_time > LastLap.total_time

====
